---- MODULE Spec2Model ----
(***************************************************************************)
(* The weekly replenishment pipeline of app.py:                            *)
(*   ForecastAgent.forecast -> ReplenishmentAgent.build_plan ->            *)
(*   BudgetAgent.apply -> ReportingAgent.summarize  (run_agent_pipeline).  *)
(*                                                                         *)
(* Numbers.  Python floats are modelled by exact rationals:                *)
(*   - a forecast is a fraction [num, den] (sum of qty_sold over the       *)
(*     number of records considered);                                      *)
(*   - avg_weekly_sales / forecast_next_week, which the code stores as      *)
(*     round(x, 2), are integers counting hundredths (50 is 0.50);         *)
(*   - cost prices, line costs and the budget are integers (money units).  *)
(* Plan lines are Python dicts shared by reference between the raw plan,   *)
(* the sorted plan and the returned plan: the model keeps them in a heap   *)
(* `rows` (reference -> dict) and the plans are sequences of references.   *)
(***************************************************************************)
EXTENDS Integers, Sequences, FiniteSets, TLC

\* ------------------------------------------------------------------ bounds

\* Largest number of active products in a snapshot.
MaxProducts == 2

\* safety_factor = 1.5 = SafetyNum / SafetyDen
SafetyNum == 3
SafetyDen == 2

\* (min_stock, max_stock) policies of a product; the second has max < min.
Policies == { [min_stock |-> 1, max_stock |-> 4],
              [min_stock |-> 3, max_stock |-> 2] }

\* cost_price values a catalog row may hold (the form stores any float).
CostPrices == {-1, 2}

\* stock_by_product.get(pid): <<>> is a missing row, <<q>> a row with
\* qty_in_hand = q.
StockRows == { <<>>, <<1>>, <<5>> }

\* sales_by_product.get(pid, []): qty_sold of the rows, most recent first.
SalesHistories == { <<>>, <<1, 0>>, <<3>> }

\* ForecastAgent(max_weeks=...) and BudgetAgent(weekly_budget=...).
Horizons == {0, 1, 2}
Budgets == {0, 6}

\* ------------------------------------------------------------------- state

VARIABLES
    products,           \* state["products"]: sequence of catalog rows
    stock_by_product,   \* state["stock_by_product"]
    sales_by_product,   \* state["sales_by_product"]
    max_weeks,          \* forecast_agent.max_weeks
    weekly_budget,      \* budget_agent.weekly_budget
    forecasts,          \* the dict forecast() returned
    rows,               \* heap of plan-line dicts, by reference
    raw_plan,           \* the list build_plan returned (references)
    budgeted_plan,      \* the list apply returned (references)
    summary,            \* what summarize returned
    pc                  \* position in run_agent_pipeline

vars == << products, stock_by_product, sales_by_product, max_weeks,
           weekly_budget, forecasts, rows, raw_plan, budgeted_plan,
           summary, pc >>

snapshot == << products, stock_by_product, sales_by_product >>

ProductIds == 1..MaxProducts

\* ----------------------------------------------------------------- helpers

\* d[k] = v on a Python dict: insert or overwrite.
SetKey(d, k, v) == (k :> v) @@ d

\* Python round(): nearest integer, ties to the even one (n / d, d > 0).
RoundHalfEven(n, d) ==
    LET q == n \div d
        r == n % d
    IN  IF 2 * r < d THEN q
        ELSE IF 2 * r > d THEN q + 1
        ELSE IF q % 2 = 0 THEN q ELSE q + 1

\* round(x, 2) of the fraction f, in hundredths.
Round2(f) == RoundHalfEven(100 * f.num, f.den)

RECURSIVE SumSeq(_)
SumSeq(s) == IF s = <<>> THEN 0 ELSE Head(s) + SumSeq(Tail(s))

\* rows[: k] for k >= 0.
Take(s, k) == SubSeq(s, 1, IF k < Len(s) THEN k ELSE Len(s))

\* ----------------------------------------------------------- ForecastAgent

\* rows[: self.max_weeks]
Considered(sales) == Take(sales, max_weeks)

\* _avg_sales divides by len(qtys): ZeroDivisionError when the slice is
\* empty although rows is not.
AvgSalesRaises(sales) == sales # <<>> /\ Len(Considered(sales)) = 0

AvgSales(sales) ==
    IF sales = <<>> THEN [num |-> 0, den |-> 1]
    ELSE [num |-> SumSeq(Considered(sales)), den |-> Len(Considered(sales))]

ForecastRaises ==
    /\ pc = "start"
    /\ \E i \in 1..Len(products) :
          AvgSalesRaises(sales_by_product[products[i].product_id])
    /\ pc' = "failed"
    /\ UNCHANGED << products, stock_by_product, sales_by_product, max_weeks,
                    weekly_budget, forecasts, rows, raw_plan, budgeted_plan,
                    summary >>

Forecast ==
    /\ pc = "start"
    /\ \A i \in 1..Len(products) :
          ~AvgSalesRaises(sales_by_product[products[i].product_id])
    /\ forecasts' = [pid \in {products[i].product_id : i \in 1..Len(products)}
                        |-> AvgSales(sales_by_product[pid])]
    /\ pc' = "forecasted"
    /\ UNCHANGED << products, stock_by_product, sales_by_product, max_weeks,
                    weekly_budget, rows, raw_plan, budgeted_plan, summary >>

\* ------------------------------------------------------ ReplenishmentAgent

CurrentStock(pid) ==
    IF stock_by_product[pid] # <<>> THEN stock_by_product[pid][1] ELSE 0

\* required_stock as a numerator over StockDen(f).
StockDen(f) == SafetyDen * f.den

\* Variant: the clamp to max_stock is left out.
RequiredStockNoClamp(prod, f) ==
    LET d      == SafetyDen * f.den
        wanted == f.num * SafetyNum
        lower  == prod.min_stock * d
    IN  IF lower >= wanted THEN lower ELSE wanted

RequiredStockNum(prod, f) ==
    LET d      == StockDen(f)
        wanted == f.num * SafetyNum
        lower  == prod.min_stock * d
        req    == IF lower >= wanted THEN lower ELSE wanted
    IN  IF req > prod.max_stock * d THEN prod.max_stock * d ELSE req

IsSlowMoving(f, current_stock) == f.num < f.den /\ current_stock > 0

\* Variant: the slow-moving override is left out.
OrderQtyNoOverride(prod, f, current_stock) ==
    LET d == SafetyDen * f.den
        q == RoundHalfEven(RequiredStockNum(prod, f) - current_stock * d, d)
    IN  IF q < 0 THEN 0 ELSE q

OrderQty(prod, f, current_stock) ==
    LET d == StockDen(f)
        q == RoundHalfEven(RequiredStockNum(prod, f) - current_stock * d, d)
    IN  IF IsSlowMoving(f, current_stock) THEN 0
        ELSE IF q < 0 THEN 0 ELSE q

PlanLine(prod, f) ==
    LET current_stock == CurrentStock(prod.product_id)
    IN  [ product_id          |-> prod.product_id,
          avg_weekly_sales    |-> Round2(f),
          current_stock       |-> current_stock,
          forecast_next_week  |-> Round2(f),
          suggested_order_qty |-> OrderQty(prod, f, current_stock),
          reason              |-> IF IsSlowMoving(f, current_stock)
                                  THEN "slow-moving" ELSE "target" ]

BuildPlan ==
    /\ pc = "forecasted"
    /\ rows' = [i \in 1..Len(products) |->
                   PlanLine(products[i], forecasts[products[i].product_id])]
    /\ raw_plan' = [i \in 1..Len(products) |-> i]
    /\ pc' = "planned"
    /\ UNCHANGED << products, stock_by_product, sales_by_product, max_weeks,
                    weekly_budget, forecasts, budgeted_plan, summary >>

\* ------------------------------------------------------------- BudgetAgent

\* price_index.get(pid, 0.0)
PriceIndex(pid) ==
    IF \E i \in 1..Len(products) : products[i].product_id = pid
    THEN (CHOOSE p \in {products[i] : i \in 1..Len(products)} :
             p.product_id = pid).cost_price
    ELSE 0

\* The first loop of apply: every row gets unit_cost and line_cost.
Priced(rs) ==
    [r \in DOMAIN rs |->
        SetKey(SetKey(rs[r], "unit_cost", PriceIndex(rs[r].product_id)),
               "line_cost",
               PriceIndex(rs[r].product_id) * rs[r].suggested_order_qty)]

RECURSIVE TotalCost(_, _)
TotalCost(plan, rs) ==
    IF plan = <<>> THEN 0
    ELSE rs[Head(plan)].line_cost + TotalCost(Tail(plan), rs)

\* Variant: an unstable sort, a reference goes before the elements whose key
\* equals its own.
RECURSIVE InsertBeforeEqual(_, _, _)
InsertBeforeEqual(sorted, r, rs) ==
    IF sorted = <<>> THEN << r >>
    ELSE IF rs[Head(sorted)].avg_weekly_sales < rs[r].avg_weekly_sales
         THEN << Head(sorted) >> \o InsertBeforeEqual(Tail(sorted), r, rs)
         ELSE << r >> \o sorted

\* Variant: a merge keyed by avg_weekly_sales, a reference replaces the
\* element whose key equals its own.
RECURSIVE InsertReplacesEqual(_, _, _)
InsertReplacesEqual(sorted, r, rs) ==
    IF sorted = <<>> THEN << r >>
    ELSE IF rs[Head(sorted)].avg_weekly_sales < rs[r].avg_weekly_sales
         THEN << Head(sorted) >> \o InsertReplacesEqual(Tail(sorted), r, rs)
         ELSE IF rs[Head(sorted)].avg_weekly_sales = rs[r].avg_weekly_sales
              THEN << r >> \o Tail(sorted)
              ELSE << r >> \o sorted

\* sorted(plan, key=avg_weekly_sales): stable, ascending.  Insert puts a
\* reference after every element whose key is <= its own.
RECURSIVE Insert(_, _, _)
Insert(sorted, r, rs) ==
    IF sorted = <<>> THEN << r >>
    ELSE IF rs[Head(sorted)].avg_weekly_sales <= rs[r].avg_weekly_sales
         THEN << Head(sorted) >> \o Insert(Tail(sorted), r, rs)
         ELSE << r >> \o sorted

RECURSIVE SortedPlan(_, _)
SortedPlan(plan, rs) ==
    IF plan = <<>> THEN <<>>
    ELSE Insert(SortedPlan(SubSeq(plan, 1, Len(plan) - 1), rs),
                plan[Len(plan)], rs)

\* Variant: the dropped row keeps its line_cost.
DropRowKeepsCost(row) ==
    SetKey(SetKey(row, "suggested_order_qty", 0),
           "budget_note", "Dropped due to budget limit")

DropRow(row) ==
    SetKey(SetKey(SetKey(row, "suggested_order_qty", 0), "line_cost", 0),
           "budget_note", "Dropped due to budget limit")

\* Variant: the walk stops at excess < 0 instead of excess <= 0.
RECURSIVE DropWalkStrict(_, _, _, _)
DropWalkStrict(sorted, i, excess, rs) ==
    IF i > Len(sorted) \/ excess < 0 THEN rs
    ELSE IF rs[sorted[i]].suggested_order_qty <= 0
         THEN DropWalkStrict(sorted, i + 1, excess, rs)
         ELSE DropWalkStrict(sorted, i + 1, excess - rs[sorted[i]].line_cost,
                             [rs EXCEPT ![sorted[i]] = DropRow(rs[sorted[i]])])

\* The walk over sorted_plan from position i with the running excess.
RECURSIVE DropWalk(_, _, _, _)
DropWalk(sorted, i, excess, rs) ==
    IF i > Len(sorted) \/ excess <= 0 THEN rs
    ELSE IF rs[sorted[i]].suggested_order_qty <= 0
         THEN DropWalk(sorted, i + 1, excess, rs)
         ELSE DropWalk(sorted, i + 1, excess - rs[sorted[i]].line_cost,
                       [rs EXCEPT ![sorted[i]] = DropRow(rs[sorted[i]])])

StampKept(rs) ==
    [r \in DOMAIN rs |->
        IF "budget_note" \in DOMAIN rs[r] THEN rs[r]
        ELSE SetKey(rs[r], "budget_note", "Kept in final order")]

StampWithin(rs) ==
    [r \in DOMAIN rs |-> SetKey(rs[r], "budget_note", "Within weekly budget")]

ApplyWithin ==
    /\ pc = "planned"
    /\ TotalCost(raw_plan, Priced(rows)) <= weekly_budget
    /\ rows' = StampWithin(Priced(rows))
    /\ budgeted_plan' = raw_plan
    /\ pc' = "budgeted"
    /\ UNCHANGED << products, stock_by_product, sales_by_product, max_weeks,
                    weekly_budget, forecasts, raw_plan, summary >>

ApplyOver ==
    /\ pc = "planned"
    /\ TotalCost(raw_plan, Priced(rows)) > weekly_budget
    /\ LET priced == Priced(rows)
           sorted == SortedPlan(raw_plan, priced)
           excess == TotalCost(raw_plan, priced) - weekly_budget
       IN  /\ rows' = StampKept(DropWalk(sorted, 1, excess, priced))
           /\ budgeted_plan' = sorted
    /\ pc' = "budgeted"
    /\ UNCHANGED << products, stock_by_product, sales_by_product, max_weeks,
                    weekly_budget, forecasts, raw_plan, summary >>

\* ---------------------------------------------------------- ReportingAgent

NoProductsMessage == [ text |-> "No products found in the system." ]

RECURSIVE TotalToOrder(_, _)
TotalToOrder(plan, rs) ==
    IF plan = <<>> THEN 0
    ELSE rs[Head(plan)].suggested_order_qty + TotalToOrder(Tail(plan), rs)

\* sum(1 for p in plan if ...): the number of TRUE in the tests' results.
RECURSIVE CountIf(_)
CountIf(tests) ==
    IF tests = <<>> THEN 0
    ELSE (IF Head(tests) THEN 1 ELSE 0) + CountIf(Tail(tests))

RowSlowMoving(p) == p.avg_weekly_sales < 100 /\ p.current_stock > 0
RowZeroStock(p) == p.current_stock = 0
\* Variant: lines the budget stage dropped are not counted.
RowNoOrderUndropped(p) ==
    p.suggested_order_qty = 0 /\ p.budget_note # "Dropped due to budget limit"

RowNoOrder(p) == p.suggested_order_qty = 0

SummaryOf(plan, rs) ==
    IF plan = <<>> THEN NoProductsMessage
    ELSE [ total_products     |-> Len(plan),
           total_to_order     |-> TotalToOrder(plan, rs),
           slow_moving        |-> CountIf([i \in 1..Len(plan) |-> RowSlowMoving(rs[plan[i]])]),
           zero_stock_items   |-> CountIf([i \in 1..Len(plan) |-> RowZeroStock(rs[plan[i]])]),
           no_order_this_week |-> CountIf([i \in 1..Len(plan) |-> RowNoOrder(rs[plan[i]])]) ]

Summarize ==
    /\ pc = "budgeted"
    /\ summary' = SummaryOf(budgeted_plan, rows)
    /\ pc' = "done"
    /\ UNCHANGED << products, stock_by_product, sales_by_product, max_weeks,
                    weekly_budget, forecasts, rows, raw_plan, budgeted_plan >>

\* ------------------------------------------------------------ specification

\* A catalog row of the snapshot (SELECT ... WHERE active = 1).
ProductRows(pid) ==
    { [product_id |-> pid, min_stock |-> pol.min_stock,
       max_stock |-> pol.max_stock, cost_price |-> cp] :
         pol \in Policies, cp \in CostPrices }

Init ==
    /\ \E n \in 0..MaxProducts :
          products \in { ps \in [1..n -> UNION {ProductRows(p) : p \in ProductIds}] :
                            \A i \in 1..n : ps[i].product_id = i }
    /\ stock_by_product \in [ProductIds -> StockRows]
    /\ sales_by_product \in [ProductIds -> SalesHistories]
    /\ \A p \in ProductIds :
          p > Len(products) =>
             stock_by_product[p] = <<>> /\ sales_by_product[p] = <<>>
    /\ max_weeks \in Horizons
    /\ weekly_budget \in Budgets
    /\ forecasts = <<>>
    /\ rows = <<>>
    /\ raw_plan = <<>>
    /\ budgeted_plan = <<>>
    /\ summary = [ text |-> "" ]
    /\ pc = "start"

Next ==
    \/ Forecast
    \/ ForecastRaises
    \/ BuildPlan
    \/ ApplyWithin
    \/ ApplyOver
    \/ Summarize

Spec == Init /\ [][Next]_vars

\* ------------------------------------------------------ properties: helpers

\* run_agent_pipeline holds the plan BudgetAgent.apply returned.
Returned == pc \in {"budgeted", "done"}

\* The rows of a plan, in its order.
Line(plan, i) == rows[plan[i]]

RECURSIVE SumFn(_, _)
SumFn(f, S) ==
    IF S = {} THEN 0
    ELSE LET x == CHOOSE y \in S : TRUE IN f[x] + SumFn(f, S \ {x})

Max(a, b) == IF a >= b THEN a ELSE b
Min(a, b) == IF a <= b THEN a ELSE b

\* Cost of a line of the raw plan before the budget stage touched it.
PreCost(rs, r) == PriceIndex(rs[r].product_id) * rs[r].suggested_order_qty

PreTotal(rs) == SumFn([r \in DOMAIN rs |-> PreCost(rs, r)], DOMAIN rs)

\* BudgetAgent.apply is the step out of "planned".
ApplyStep == pc = "planned" /\ pc' = "budgeted"

HasNote(r, note) == "budget_note" \in DOMAIN rows[r] /\ rows[r].budget_note = note

WasOverBudget ==
    /\ Returned
    /\ \E r \in DOMAIN rows : ~HasNote(r, "Within weekly budget")

\* ------------------------------------------------------------------ claims

SlowMoverSuppressed ==
    Returned =>
        \A i \in 1..Len(budgeted_plan) :
            (Line(budgeted_plan, i).avg_weekly_sales < 100
               /\ Line(budgeted_plan, i).current_stock > 0)
            => Line(budgeted_plan, i).suggested_order_qty = 0

\* A returned plan with a slow mover whose rounded deficit is positive (the
\* override, not the arithmetic, made its quantity 0), after a budget drop.
SlowMoverWitness ==
    /\ Returned
    /\ \E r \in DOMAIN rows : HasNote(r, "Dropped due to budget limit")
    /\ \E i \in 1..Len(budgeted_plan) :
          LET row  == Line(budgeted_plan, i)
              prod == products[row.product_id]
              f    == forecasts[row.product_id]
          IN  /\ row.avg_weekly_sales < 100
              /\ row.avg_weekly_sales > 0
              /\ row.current_stock > 0
              /\ 2 * (RequiredStockNum(prod, f)
                        - row.current_stock * StockDen(f)) > StockDen(f)

\* C3: coverage.  After build_plan and after BudgetAgent.apply (either
\* branch) the plan holds exactly one line per active product of the
\* snapshot; an empty catalog gives an empty plan.
OneLinePerProduct(plan) ==
    /\ Len(plan) = Len(products)
    /\ \A k \in 1..Len(products) :
          Cardinality({i \in 1..Len(plan) :
                          Line(plan, i).product_id = products[k].product_id}) = 1

Coverage ==
    /\ pc = "planned" => OneLinePerProduct(raw_plan)
    /\ Returned => OneLinePerProduct(budgeted_plan)

\* A plan returned by the over-budget branch in another order than the
\* snapshot's.
CoverageWitness ==
    /\ WasOverBudget
    /\ Len(budgeted_plan) = MaxProducts
    /\ budgeted_plan # raw_plan

\* C4: non-negativity.  Every line of the returned plan has
\* suggested_order_qty >= 0 and line_cost >= 0.
NonNegative ==
    Returned =>
        \A i \in 1..Len(budgeted_plan) :
            /\ Line(budgeted_plan, i).suggested_order_qty >= 0
            /\ Line(budgeted_plan, i).line_cost >= 0

\* C5: no stage mutates its inputs.  forecast and build_plan leave the
\* snapshot as it is, and BudgetAgent.apply leaves the quantities of the
\* lines of the raw plan as build_plan set them.
NoStageMutatesInput ==
    [][ /\ snapshot' = snapshot
        /\ ApplyStep =>
              \A i \in 1..Len(raw_plan) :
                  rows'[raw_plan[i]].suggested_order_qty
                      = rows[raw_plan[i]].suggested_order_qty ]_vars

\* C6: output ordering of BudgetAgent.apply.  Within budget the plan comes
\* back in its original order with every quantity untouched; over budget it
\* comes back ascending by avg_weekly_sales, lines with equal
\* avg_weekly_sales in their original relative order.
PosIn(plan, r) == CHOOSE i \in 1..Len(plan) : plan[i] = r

OrderingOutcome(rs, rs2, plan, plan2, budget) ==
    IF PreTotal(rs) <= budget
    THEN /\ plan2 = plan
         /\ \A r \in DOMAIN rs :
               rs2[r].suggested_order_qty = rs[r].suggested_order_qty
    ELSE /\ Len(plan2) = Len(plan)
         /\ {plan2[i] : i \in 1..Len(plan2)} = {plan[i] : i \in 1..Len(plan)}
         /\ \A i, j \in 1..Len(plan2) :
               i < j =>
                  \/ rs[plan2[i]].avg_weekly_sales < rs[plan2[j]].avg_weekly_sales
                  \/ /\ rs[plan2[i]].avg_weekly_sales = rs[plan2[j]].avg_weekly_sales
                     /\ PosIn(plan, plan2[i]) < PosIn(plan, plan2[j])

OutputOrdering ==
    [][ ApplyStep =>
          OrderingOutcome(rows, rows', raw_plan, budgeted_plan', weekly_budget)
      ]_vars

\* An over-budget plan with two lines of equal avg_weekly_sales.
OutputOrderingWitness ==
    /\ WasOverBudget
    /\ \E i, j \in 1..Len(budgeted_plan) :
          /\ i < j
          /\ Line(budgeted_plan, i).avg_weekly_sales
                = Line(budgeted_plan, j).avg_weekly_sales
          /\ Line(budgeted_plan, i).suggested_order_qty
                # Line(budgeted_plan, j).suggested_order_qty

\* C7: ForecastAgent.forecast never fails.  For every snapshot and every
\* configured horizon it returns, for every active product, 0 without sales
\* records and else the mean of qty_sold over the up to max_weeks most
\* recent records.
MeanOfRecent(sales) ==
    LET k == Min(max_weeks, Len(sales))
    IN  [num |-> SumFn([i \in 1..k |-> sales[i]], 1..k), den |-> k]

ForecastNeverFails ==
    /\ pc # "failed"
    /\ pc \notin {"start", "failed"} =>
          \A k \in 1..Len(products) :
              LET pid   == products[k].product_id
                  sales == sales_by_product[pid]
              IN  /\ pid \in DOMAIN forecasts
                  /\ IF sales = <<>> THEN forecasts[pid].num = 0
                     ELSE forecasts[pid] = MeanOfRecent(sales)

\* C8: ReportingAgent.summarize reports the final, post-budget plan: its
\* length, the sum of the quantities left after budget drops, and as "no
\* purchase needed" the lines at quantity 0, budget-dropped ones included;
\* an empty plan gives the fixed message.
SummaryOfFinalPlan ==
    pc = "done" =>
        IF Len(budgeted_plan) = 0 THEN summary = NoProductsMessage
        ELSE LET idx     == 1..Len(budgeted_plan)
                 dropped == {i \in idx :
                               HasNote(budgeted_plan[i], "Dropped due to budget limit")}
             IN  /\ summary # NoProductsMessage
                 /\ summary.total_products = Len(products)
                 /\ summary.total_to_order
                      = SumFn([i \in idx |-> Line(budgeted_plan, i).suggested_order_qty],
                              idx \ dropped)
                 /\ summary.no_order_this_week
                      = Cardinality(dropped)
                        + Cardinality({i \in idx \ dropped :
                              Line(budgeted_plan, i).suggested_order_qty = 0})

\* A summary of a plan with a budget-dropped line, a line that never needed
\* an order and a line still ordered.
SummaryWitness ==
    /\ pc = "done"
    /\ \E r \in DOMAIN rows : HasNote(r, "Dropped due to budget limit")
    /\ \E r \in DOMAIN rows :
          HasNote(r, "Kept in final order") /\ rows[r].suggested_order_qty > 0
    /\ summary.no_order_this_week = 1

\* C9: the drop walk.  Over budget, the lines zeroed and marked "Dropped due
\* to budget limit" are exactly the shortest prefix, in ascending
\* avg_weekly_sales order, of the lines with a positive quantity whose
\* pre-drop line costs bring excess = totalCost - weeklyBudget to <= 0;
\* every other line keeps its quantity and line cost and is marked "Kept in
\* final order".
DropOutcome(rs, rs2, sorted, budget) ==
    LET idx      == 1..Len(sorted)
        cost     == [i \in idx |-> PreCost(rs, sorted[i])]
        positive == {i \in idx : rs[sorted[i]].suggested_order_qty > 0}
        dropped  == {i \in idx :
                        rs2[sorted[i]].budget_note = "Dropped due to budget limit"}
        excess   == PreTotal(rs) - budget
    IN  /\ dropped \subseteq positive
        /\ \A i \in dropped : \A j \in positive : j < i => j \in dropped
        /\ excess - SumFn(cost, dropped) <= 0
        /\ \A i \in dropped :
              excess - SumFn(cost, {j \in dropped : j < i}) > 0
        /\ \A i \in dropped :
              /\ rs2[sorted[i]].suggested_order_qty = 0
              /\ rs2[sorted[i]].line_cost = 0
        /\ \A i \in idx \ dropped :
              /\ rs2[sorted[i]].suggested_order_qty
                    = rs[sorted[i]].suggested_order_qty
              /\ rs2[sorted[i]].line_cost = cost[i]
              /\ rs2[sorted[i]].budget_note = "Kept in final order"

ReplenishmentOutcome(row, prod, f) ==
    LET d        == SafetyDen * f.den
        required == Min(prod.max_stock * d,
                        Max(prod.min_stock * d, f.num * SafetyNum))
        current  == IF stock_by_product[prod.product_id] = <<>> THEN 0
                    ELSE stock_by_product[prod.product_id][1]
        deficit  == required - current * d
    IN  /\ required <= prod.max_stock * d
        /\ prod.max_stock < prod.min_stock => required = prod.max_stock * d
        /\ row.current_stock = current
        /\ ~(f.num < f.den /\ current > 0) =>
              \E q \in -10..10 :
                  /\ 2 * q * d - 2 * deficit <= d
                  /\ 2 * deficit - 2 * q * d <= d
                  /\ (2 * deficit - 2 * q * d = d \/ 2 * q * d - 2 * deficit = d)
                        => q % 2 = 0
                  /\ row.suggested_order_qty = Max(0, q)

ReplenishmentQty ==
    pc = "planned" =>
        \A i \in 1..Len(raw_plan) :
            ReplenishmentOutcome(Line(raw_plan, i), products[i],
                                 forecasts[products[i].product_id])

\* A plan with a line clamped to max_stock by a forecast above it, and a
\* line whose negative deficit gave quantity 0.
ReplenishmentWitness ==
    /\ pc = "planned"
    /\ \E i \in 1..Len(raw_plan) :
          /\ products[i].max_stock >= products[i].min_stock
          /\ forecasts[i].num * SafetyNum
                > products[i].max_stock * SafetyDen * forecasts[i].den
          /\ Line(raw_plan, i).suggested_order_qty = products[i].max_stock
    /\ \E i \in 1..Len(raw_plan) :
          /\ forecasts[i].num >= forecasts[i].den
          /\ Line(raw_plan, i).current_stock > products[i].max_stock
          /\ Line(raw_plan, i).suggested_order_qty = 0

====
